---- MODULE Spec2Model ----
(***************************************************************************)
(* Rolling feature cache of BaseModel (Stock-Bot-Predicter-AI/models.py)   *)
(* and its offline driver (Loop_Implementation.py).                        *)
(*                                                                         *)
(* Dates are calendar-day numbers (day 0 is a Monday); "YYYY-MM-DD"        *)
(* strings of the source are these numbers.  A numeric cell is a rational  *)
(* <<n, d>> in lowest terms with d > 0; d = 0 encodes the non-finite       *)
(* floats: <<1,0>> = inf, <<-1,0>> = -inf, <<0,0>> = NaN.                  *)
(***************************************************************************)
EXTENDS Integers, Sequences, FiniteSets, TLC

VARIABLES
    start_date,       \* self.start_date
    end_date,         \* self.end_date
    cached,           \* self.cached
    cached_info,      \* self.cached_info
    num_days,         \* self.num_days
    information_keys, \* self.information_keys
    scaler_data,      \* self.scaler_data
    model,            \* self.model: "None" or "Sequential"
    data,             \* self.data
    files,            \* the directory Stocks/<symbol>/
    info_json,        \* Stocks/<symbol>/info.json : <<first day, last day>> of its Dates
    op,               \* the operation that ran last
    result,           \* how it ended: "ok", "None" or the exception raised
    fallback,         \* the last call attempted update_cached_offline as a fallback
    attempts,         \* the acquisition attempts of the last get_info_today call
    loop_alive,       \* the run_loop thread has not died of an exception
    steps,            \* operations performed so far
    polls             \* parity of the number of calls the polling driver has made

vars == <<start_date, end_date, cached, cached_info, num_days, information_keys,
          scaler_data, model, data, files, info_json, op, result, fallback,
          attempts, loop_alive, steps, polls>>

-----------------------------------------------------------------------------
(* Bounds of the model *)

\* last calendar day the data source and the long snapshot know
MaxDay == 92

\* last day of the short snapshot (fewer Dates than a 60-day window)
ShortSnapLast == 9

\* operations explored per behaviour
MaxSteps == 4

-----------------------------------------------------------------------------
(* Program constants *)

\* np.reshape(..., (1, 60, cols))
ReshapeDays == 60

\* relativedelta(days=280) of the first online fetch
HistoryDays == 280

\* rolling(window=10, min_periods=1) of Momentum
MomentumWindow == 10

\* rolling(window=14) of the RSI's average gain and loss
RSIWindow == 14

\* def update_cached_info_online(self): one parameter
OnlineInfoParams == 1

\* self.update_cached_info_online(self.information_keys): two arguments
OnlineInfoArgs == 2

-----------------------------------------------------------------------------
(* Small helpers *)

Max(a, b) == IF a >= b THEN a ELSE b

Min(a, b) == IF a <= b THEN a ELSE b

Abs(a) == IF a < 0 THEN -a ELSE a

RECURSIVE GCD(_, _)
GCD(a, b) == IF b = 0 THEN a ELSE GCD(b, a % b)

\* n/d with both divided by g
Reduced(n, d, g) == <<n \div g, d \div g>>

\* the rational n/d, d # 0, in lowest terms with a positive denominator
Rat(n, d) == Reduced(IF d < 0 THEN -n ELSE n, Abs(d), GCD(Abs(n), Abs(d)))

NaN == <<0, 0>>

IsNaN(v) == v = NaN

IsFinite(v) == v[2] # 0

Num(i) == <<i, 1>>

\* float subtraction a - b (finite operands; NaN propagates)
FSub(a, b) ==
    IF ~IsFinite(a) \/ ~IsFinite(b) THEN NaN
    ELSE Rat(a[1] * b[2] - b[1] * a[2], a[2] * b[2])

\* float addition a + b (finite operands; NaN propagates)
FAdd(a, b) ==
    IF ~IsFinite(a) \/ ~IsFinite(b) THEN NaN
    ELSE Rat(a[1] * b[2] + b[1] * a[2], a[2] * b[2])

\* numpy/pandas float division a / b: x/0 is inf, -inf or NaN, never an error
FDiv(a, b) ==
    IF ~IsFinite(a) \/ ~IsFinite(b) THEN NaN
    ELSE IF b[1] = 0
         THEN (IF a[1] > 0 THEN <<1, 0>> ELSE IF a[1] < 0 THEN <<-1, 0>> ELSE NaN)
         ELSE Rat(a[1] * b[2], a[2] * b[1])

\* seq[-n:]  (pandas .iloc[-n:] and Python list slicing agree for n >= 1)
LastN(s, n) ==
    IF Len(s) <= n THEN s ELSE SubSeq(s, Len(s) - n + 1, Len(s))

\* Python seq[a:b] with the 0-based, possibly negative, bounds of the source
PySlice(s, a, b) ==
    LET L  == Len(s)
        lo == IF a < 0 THEN Max(0, L + a) ELSE Min(a, L)
        hi == IF b < 0 THEN Max(0, L + b) ELSE Min(b, L)
    IN  IF lo < hi THEN SubSeq(s, lo + 1, hi) ELSE <<>>

\* list.index(x), 0-based; -1 stands for the ValueError of a missing element
IndexOf(s, x) ==
    IF \E i \in 1..Len(s) : s[i] = x
    THEN (CHOOSE i \in 1..Len(s) : s[i] = x /\ \A j \in 1..(i-1) : s[j] # x) - 1
    ELSE -1

Contains(s, x) == \E i \in 1..Len(s) : s[i] = x

-----------------------------------------------------------------------------
(* The world outside the repository: calendar, data source, snapshot *)

\* column names
AllKeys == {"Close", "Change", "Momentum", "RSI", "earnings dates", "earning diffs"}

\* trading_funcs.excluded_values (cf. the local list of Models.py line 261)
excluded_values == {"Dates", "earnings dates", "earning diffs"}

\* get_calendar('NYSE').schedule(...).index : Monday..Friday
IsTradingDay(d) == d % 7 < 5

\* the days start..stop in increasing order
DayRange(start, stop) == [i \in 1..Max(0, stop - start + 1) |-> start + i - 1]

\* closing price the data source reports for day d
SourceClose(d) == 10 + ((3 * d + (d \div 7)) % 7)

\* yf.Ticker(symbol).history(start, end, interval="1d"): the index of the frame
\* returned, the trading days of [start, end); empty when the source cannot be
\* reached
TickerHistory(start, end, net) ==
    IF ~net THEN <<>>
    ELSE SelectSeq(DayRange(Max(0, start), Min(MaxDay, end - 1)),
                   LAMBDA d : IsTradingDay(d))

\* info.json["Dates"]
SnapDates(snap) ==
    SelectSeq(DayRange(snap[1], snap[2]), LAMBDA d : IsTradingDay(d))

\* number of entries of the event lists info.json["earnings dates"/"earning diffs"]
EarningsLen == 2

\* first difference of Close over a sequence of days, at position i (1-based)
ChangeAt(days, i) ==
    IF i = 1 THEN NaN ELSE Num(SourceClose(days[i]) - SourceClose(days[i-1]))

\* a cell added to a sum of cells, NaN cells skipped
AddCell(cell, rest) ==
    IF IsNaN(cell) THEN rest
    ELSE IF IsNaN(rest) THEN cell
    ELSE FAdd(cell, rest)

\* sum of the non-NaN cells s[lo..hi]; NaN when there is none (min_periods=1)
RECURSIVE SumCells(_, _, _)
SumCells(s, lo, hi) ==
    IF lo > hi THEN NaN ELSE AddCell(s[lo], SumCells(s, lo + 1, hi))

\* series.rolling(window=w, min_periods=1).sum()
RollingSum(s, w) ==
    [j \in 1..Len(s) |-> SumCells(s, Max(1, j - w + 1), j)]

\* change.apply(lambda x: x if x > 0 else 0)
Gain(change) ==
    [i \in 1..Len(change) |-> IF change[i][1] > 0 /\ IsFinite(change[i]) THEN change[i]
                              ELSE Num(0)]

\* change.apply(lambda x: abs(x) if x < 0 else 0)
Loss(change) ==
    [i \in 1..Len(change) |-> IF change[i][1] < 0 /\ IsFinite(change[i])
                              THEN <<-change[i][1], change[i][2]>>
                              ELSE Num(0)]

\* series.rolling(window=w, min_periods=m).mean() of a series without NaN
RollingMean(s, w, m) ==
    [j \in 1..Len(s) |-> IF j < m THEN NaN
                         ELSE FDiv(SumCells(s, Max(1, j - w + 1), j), Num(Min(j, w)))]

\* 100 - (100 / (1 + rs)) in floating point: rs is NaN for 0/0, inf for x/0
RSIOf(rs) ==
    IF IsNaN(rs) THEN NaN
    ELSE IF ~IsFinite(rs) THEN Num(100)
    ELSE FSub(Num(100), FDiv(Num(100), FAdd(Num(1), rs)))

\* avg_gain / avg_loss, cell by cell, turned into the RSI
RSIColumn(avg_gain, avg_loss) ==
    [i \in 1..Len(avg_gain) |-> RSIOf(FDiv(avg_gain[i], avg_loss[i]))]

\* Close over a sequence of days
CloseColumn(days) == [i \in 1..Len(days) |-> Num(SourceClose(days[i]))]

\* Close.diff() over a sequence of days
ChangeColumn(days) == [i \in 1..Len(days) |-> ChangeAt(days, i)]

\* info.json[key] for an indicator column: the unscaled indicator over all Dates
SnapColumn(snap, key) ==
    CASE key = "Close"    -> CloseColumn(SnapDates(snap))
      [] key = "Change"   -> ChangeColumn(SnapDates(snap))
      [] key = "Momentum" -> RollingSum(ChangeColumn(SnapDates(snap)), MomentumWindow)
      [] key = "RSI"      -> RSIColumn(RollingMean(Gain(ChangeColumn(SnapDates(snap))),
                                                   RSIWindow, 1),
                                       RollingMean(Loss(ChangeColumn(SnapDates(snap))),
                                                   RSIWindow, 1))
      [] OTHER            -> [i \in 1..EarningsLen |-> Num(i)]

\* keys present in info.json
SnapKeys == AllKeys \cup {"Dates"}

-----------------------------------------------------------------------------
(* Values of self.cached and self.cached_info *)

None == [nd |-> 0, rows |-> <<>>]

\* an ndarray of nd dimensions holding the given rows
Array(nd, rows) == [nd |-> nd, rows |-> rows]

\* len(self.cached); -1 stands for the TypeError of len(None)
PyLen(c) ==
    CASE c.nd = 0 -> -1
      [] c.nd = 3 -> 1
      [] OTHER    -> Len(c.rows)

NoInfo == [kind |-> "None", index |-> <<>>]

DictInfo == [kind |-> "Dict", index |-> <<>>]

DataFrame(index) == [kind |-> "DataFrame", index |-> index]

\* np.transpose of a list of equally long columns
Transpose(cols) ==
    IF Len(cols) = 0 THEN Array(1, <<>>)
    ELSE Array(2, [r \in 1..Len(cols[1]) |-> [c \in 1..Len(cols) |-> cols[c][r]]])

\* the object fields a method may assign
Self == [cached |-> cached, cached_info |-> cached_info,
         start_date |-> start_date, end_date |-> end_date,
         scaler_data |-> scaler_data, model |-> model, data |-> data]

\* what a call hands back: the object afterwards and the exception, "" for none
Outcome(s, exc) == [s |-> s, exc |-> exc]

-----------------------------------------------------------------------------
(* BaseModel.update_cached_offline *)

\* the first key of the sequence that fails the test, "" when none does
FirstKey(keys, Bad(_)) ==
    IF \E i \in 1..Len(keys) : Bad(keys[i])
    THEN keys[CHOOSE i \in 1..Len(keys) : Bad(keys[i]) /\ \A j \in 1..(i-1) : ~Bad(keys[j])]
    ELSE ""

\* keys of information_keys that are not excluded, in order
IncludedKeys(keys) == SelectSeq(keys, LAMBDA k : k \notin excluded_values)

\* cached_info[key][end_index - num_days : end_index] for the keys, as rows
SliceColumns(snap, inc, end_index, n) ==
    Transpose([c \in 1..Len(inc) |->
                 PySlice(SnapColumn(snap, inc[c]), end_index - n, end_index)])

\* first population: the slice [end_index - num_days, end_index) of every
\* included column, transposed to rows
OfflinePopulation(snap, keys, n, end) ==
    SliceColumns(snap, IncludedKeys(keys), IndexOf(SnapDates(snap), end), n)

\* day_data = [self.cached_info[key][i_end] for key in self.information_keys]
DayData(snap, keys, i_end) ==
    [c \in 1..Len(keys) |-> SnapColumn(snap, keys[c])[i_end + 1]]

\* np.concatenate((self.cached[1:], [day_data]))
Concatenate(c, day_data) == Array(2, Append(Tail(c.rows), day_data))

\* the advance once i_end = Dates.index(end_date) is known (-1: not in Dates)
AdvanceAt(s, snap, keys, i_end) ==
    IF i_end = -1 THEN Outcome(s, "ValueError")
    ELSE IF FirstKey(keys, LAMBDA k : k \notin SnapKeys) # ""
         THEN Outcome(s, "KeyError")
    ELSE IF FirstKey(keys, LAMBDA k : i_end >= Len(SnapColumn(snap, k))) # ""
         THEN Outcome(s, "IndexError")
    ELSE IF s.cached.nd # 2 \/ Len(s.cached.rows[1]) # Len(keys)
         THEN Outcome(s, "ValueError")
    ELSE Outcome([s EXCEPT !.cached = Concatenate(s.cached, DayData(snap, keys, i_end))], "")

\* the second half of the method: if len(self.cached) != 0 ...
OfflineAdvance(s, snap, keys) ==
    IF PyLen(s.cached) = -1 THEN Outcome(s, "TypeError")
    ELSE IF PyLen(s.cached) = 0 THEN Outcome(s, "")
    ELSE AdvanceAt(s, snap, keys, IndexOf(SnapDates(snap), s.end_date))

\* the end of the first half: the population is stored, then checked
AfterPopulation(s1, snap, keys) ==
    IF PyLen(s1.cached) = 0 THEN Outcome(s1, "RuntimeError")
    ELSE OfflineAdvance(s1, snap, keys)

\* the whole method
update_cached_offline(s, snap, keys, n) ==
    IF s.cached_info.kind = "DataFrame"
    THEN Outcome(s, "ValueError")    \* `not DataFrame`: truth value is ambiguous
    ELSE IF s.cached_info.kind = "None"
    THEN IF ~Contains(SnapDates(snap), s.start_date) THEN Outcome(s, "ValueError")
         ELSE IF ~Contains(SnapDates(snap), s.end_date) THEN Outcome(s, "ValueError")
         ELSE IF FirstKey(IncludedKeys(keys), LAMBDA k : k \notin SnapKeys) # ""
              THEN Outcome(s, "KeyError")
         ELSE AfterPopulation([s EXCEPT !.cached = OfflinePopulation(snap, keys, n, s.end_date),
                                        !.cached_info = DictInfo],
                              snap, keys)
    ELSE OfflineAdvance(s, snap, keys)

-----------------------------------------------------------------------------
(* BaseModel.update_cached_info_online, indicators_past_num_days,
   update_cached_online *)

\* cached_info.drop(cached_info.index[0]): drops every row carrying that label
DropFirstLabel(index) == SelectSeq(index, LAMBDA d : d # index[1])

\* the first fetch: the frame, or ConnectionError when it is empty
FirstFetch(hist) ==
    IF Len(hist) = 0 THEN [val |-> NoInfo, exc |-> "ConnectionError"]
    ELSE [val |-> DataFrame(hist), exc |-> ""]

\* a later fetch: the oldest row dropped, the rows of the new day appended
NextFetch(info, day_info) ==
    IF Len(day_info) = 0 THEN [val |-> NoInfo, exc |-> "ConnectionError"]
    ELSE IF info.kind = "Dict" THEN [val |-> NoInfo, exc |-> "AttributeError"]
    ELSE [val |-> DataFrame(DropFirstLabel(info.index) \o day_info), exc |-> ""]

\* the frame the method returns (val) or the exception it raises
update_cached_info_online(s, net) ==
    IF s.cached_info.kind = "None"
    THEN FirstFetch(TickerHistory(s.end_date - HistoryDays, s.end_date, net))
    ELSE NextFetch(s.cached_info, TickerHistory(s.end_date - 1, s.end_date, net))

\* (column_values - low) / diff
Scale(v, p) == FDiv(FSub(v, Num(p.min)), Num(p.diff))

\* a column scaled cell by cell
ScaleColumn(col, p) == [i \in 1..Len(col) |-> Scale(col[i], p)]

\* get_info.get_earnings_history: the announcement dates and their surprises
get_earnings_history ==
    [dates |-> [i \in 1..EarningsLen |-> 7 * i - 4],
     diffs |-> [i \in 1..EarningsLen |-> Num(i)]]

\* the keys indicators_past_num_days tests with `if '<key>' in information_keys`
ConditionalKeys ==
    {"12-day EMA", "26-day EMA", "MACD", "Signal Line", "Histogram", "200-day EMA",
     "Change", "Momentum", "RSI", "TRAMA", "gradual-liquidity spike",
     "3-liquidity spike", "momentum_oscillator", "ema_flips", "signal_flips"}

\* columns indicators_past_num_days computes for these information keys
ComputedKeys(keys) ==
    {"Close"} \cup {k \in ConditionalKeys : Contains(keys, k)}
              \cup (IF Contains(keys, "earning diffs")
                    THEN {"earnings dates", "earning diffs"} ELSE {})

\* the column of a key over the retained history (index of the frame), unscaled
IndicatorColumn(key, index, n) ==
    CASE key = "Close"    -> LastN(CloseColumn(index), n)
      [] key = "Change"   -> LastN(LastN(ChangeColumn(index), n), n)
      [] key = "Momentum" -> LastN(RollingSum(LastN(ChangeColumn(index), n),
                                              MomentumWindow), n)
      [] key = "RSI"      -> RSIColumn(
                               LastN(RollingMean(Gain(LastN(ChangeColumn(index), n)),
                                                 RSIWindow, RSIWindow), n),
                               LastN(RollingMean(Loss(LastN(ChangeColumn(index), n)),
                                                 RSIWindow, RSIWindow), n))
      [] key = "earning diffs" -> [i \in 1..n |-> Num(0)]
      [] OTHER            -> <<>>

\* the earnings branch: "" or the exception it raises.  end_date is a string and
\* `date` a datetime, so earnings_dates.index(date) finds nothing
EarningsError(keys, scaler, n, end) ==
    IF ~Contains(keys, "earning diffs") THEN ""
    ELSE IF "earning diffs" \notin DOMAIN scaler THEN "KeyError"
    ELSE IF n > 0 /\ Contains(get_earnings_history.dates, end) THEN "ValueError"
    ELSE ""

\* stock_data as returned: key -> column, scaled unless excluded; exc when the
\* method raises
indicators_past_num_days(keys, scaler, info, n, end) ==
    IF info.kind = "None" THEN [data |-> <<>>, exc |-> "TypeError"]
    ELSE IF info.kind = "Dict" THEN [data |-> <<>>, exc |-> "AttributeError"]
    ELSE IF EarningsError(keys, scaler, n, end) # ""
    THEN [data |-> <<>>, exc |-> EarningsError(keys, scaler, n, end)]
    ELSE IF FirstKey(IncludedKeys(keys),
                     LAMBDA k : k \notin DOMAIN scaler \/ k \notin ComputedKeys(keys)) # ""
    THEN [data |-> <<>>, exc |-> "KeyError"]
    ELSE [data |-> [k \in ComputedKeys(keys) |->
                      IF Contains(IncludedKeys(keys), k)
                      THEN ScaleColumn(IndicatorColumn(k, info.index, n), scaler[k])
                      ELSE IndicatorColumn(k, info.index, n)],
          exc |-> ""]

\* trading_funcs.is_floats on a column of stock_data
is_floats(col) == Len(col) > 0

\* np.transpose([data[key] for key in kept])
TransposeKept(d, kept) == Transpose([c \in 1..Len(kept) |-> d[kept[c]]])

\* the rest of update_cached_online, given what indicators_past_num_days returned
AssembleWindow(s, keys, r) ==
    IF r.exc # "" THEN Outcome(s, r.exc)
    ELSE IF FirstKey(keys, LAMBDA k : k \notin DOMAIN r.data) # ""
         THEN Outcome(s, "KeyError")
    ELSE Outcome([s EXCEPT !.cached =
                      TransposeKept(r.data, SelectSeq(keys, LAMBDA k : is_floats(r.data[k])))],
                 "")

\* self.cached = np.transpose([cached[key] for key in keys if is_floats(cached[key])])
update_cached_online(s, keys, scaler, n) ==
    AssembleWindow(s, keys,
                   indicators_past_num_days(keys, scaler, s.cached_info, n, s.end_date))

-----------------------------------------------------------------------------
(* BaseModel.get_info_today *)

\* type(self.cached_info) is Dict : no object has typing.Dict as its type
TypeIsTypingDict(info) == FALSE

\* np.reshape(c, (1, 60, c.shape[1])): "" when it succeeds, else the exception
ReshapeError(c) ==
    CASE c.nd = 1 -> "IndexError"
      [] c.nd = 2 -> IF Len(c.rows) = ReshapeDays THEN "" ELSE "ValueError"
      [] OTHER    -> "ValueError"

\* both cursor dates one calendar day later
NextCalendarDay(s) ==
    [s EXCEPT !.start_date = s.start_date + 1, !.end_date = s.end_date + 1]

\* self.cached_info = <the frame fetched>; self.update_cached_online()
StoreInfo(s, info, keys, scaler, n) ==
    IF info.exc # "" THEN Outcome(s, info.exc)
    ELSE update_cached_online([s EXCEPT !.cached_info = info.val], keys, scaler, n)

\* the try block: the online attempt
OnlineAttempt(s, keys, scaler, n, net) ==
    IF TypeIsTypingDict(s.cached_info) THEN Outcome(s, "ConnectionError")
    ELSE IF OnlineInfoArgs # OnlineInfoParams THEN Outcome(s, "TypeError")
    ELSE StoreInfo(s, update_cached_info_online(s, net), keys, scaler, n)

\* one acquisition attempt of a call: its mode, self.cached when it began, and
\* the exception that ended it ("" for none)
Attempt(mode, c, exc) == [mode |-> mode, cached |-> c, exc |-> exc]

\* the reshape and the value returned
Reshaped(s1, err, fb, log) ==
    IF err # "" THEN [s |-> s1, exc |-> err, ret |-> "", fallback |-> fb, attempts |-> log]
    ELSE [s |-> [s1 EXCEPT !.cached = Array(3, s1.cached.rows)],
          exc |-> "", ret |-> "ok", fallback |-> fb, attempts |-> log]

\* what follows the try statement
AfterAcquisition(s, fb, log) ==
    IF s.cached = None
    THEN [s |-> s, exc |-> "RuntimeError", ret |-> "", fallback |-> fb, attempts |-> log]
    ELSE Reshaped(NextCalendarDay(s), ReshapeError(s.cached), fb, log)

\* the inner try statement, given how update_cached_offline ended; c1 is
\* self.cached when it began
AfterOffline(offline, first, c1) ==
    IF offline.exc = "ValueError"
    THEN [s |-> offline.s, exc |-> "RuntimeError", ret |-> "", fallback |-> TRUE,
          attempts |-> <<first, Attempt("offline", c1, offline.exc)>>]
    ELSE IF offline.exc # ""
    THEN [s |-> offline.s, exc |-> offline.exc, ret |-> "", fallback |-> TRUE,
          attempts |-> <<first, Attempt("offline", c1, offline.exc)>>]
    ELSE AfterAcquisition(offline.s, TRUE, <<first, Attempt("offline", c1, offline.exc)>>)

\* the except ConnectionError clause, entered with the object s1
OfflineFallback(s1, first, snap, keys, n) ==
    AfterOffline(update_cached_offline(s1, snap, keys, n), first, s1.cached)

\* the try statement, given how the online attempt ended
AfterOnline(s, online, snap, keys, n) ==
    IF online.exc = "ConnectionError"
    THEN OfflineFallback(IF online.s.cached_info.kind = "DataFrame"
                         THEN [online.s EXCEPT !.cached_info = NoInfo]
                         ELSE online.s,
                         Attempt("online", s.cached, online.exc), snap, keys, n)
    ELSE IF online.exc # ""
    THEN [s |-> online.s, exc |-> online.exc, ret |-> "", fallback |-> FALSE,
          attempts |-> <<Attempt("online", s.cached, online.exc)>>]
    ELSE AfterAcquisition(online.s, FALSE, <<Attempt("online", s.cached, online.exc)>>)

\* get_info_today racing both paths: update_cached_offline starts while the
\* online attempt has not ended
get_info_today_racing(s, keys, scaler, n, snap, net) ==
    IF ~IsTradingDay(s.end_date)
    THEN [s |-> s, exc |-> "", ret |-> "None", fallback |-> FALSE, attempts |-> <<>>]
    ELSE OfflineFallback(s, Attempt("online", s.cached, ""), snap, keys, n)

\* the whole method: the object afterwards, the exception or the value returned,
\* whether update_cached_offline was attempted, and the attempts in order
get_info_today(s, keys, scaler, n, snap, net) ==
    IF ~IsTradingDay(s.end_date)
    THEN [s |-> s, exc |-> "", ret |-> "None", fallback |-> FALSE, attempts |-> <<>>]
    ELSE AfterOnline(s, OnlineAttempt(s, keys, scaler, n, net), snap, keys, n)

-----------------------------------------------------------------------------
(* The directory Stocks/<symbol>/ and the values of self.data *)

\* a file that does not exist
NoFile == [exists |-> FALSE, content |-> <<>>]

\* a JSON file holding the given value
JsonFile(content) == [exists |-> TRUE, content |-> content]

\* self.data = None
NoData == [kind |-> "None", keys |-> {}]

\* self.data as a dict with these keys
DictData(keys) == [kind |-> "dict", keys |-> keys]

\* the directory: the saved <name>_model, <name>_data.json, data.json and
\* min_max_data.json
Directory(model_dir, name_data, data_json, min_max) ==
    [model_dir |-> model_dir, name_data |-> name_data,
     data_json |-> data_json, min_max |-> min_max]

\* number of rows of the matrix get_relavant_values returns: the Dates of
\* info.json from start_date to end_date
RelevantRows(snap, start, end) ==
    Len(SelectSeq(SnapDates(snap), LAMBDA d : start <= d /\ d <= end))

\* the numerators of the defined cells of a column over those Dates
FitSample(snap, key, start, end) ==
    LET days == SnapDates(snap)
        col  == SnapColumn(snap, key)
    IN  { col[i][1] : i \in { j \in 1..Len(days) :
                                 /\ j <= Len(col) /\ IsFinite(col[j])
                                 /\ start <= days[j] /\ days[j] <= end } }

\* Normalizer fit: (min, max - min) of the sample
Fit(sample) ==
    IF sample = {} THEN [min |-> 0, diff |-> 0]
    ELSE LET lo == CHOOSE x \in sample : \A y \in sample : x <= y
             hi == CHOOSE x \in sample : \A y \in sample : x >= y
         IN  [min |-> lo, diff |-> hi - lo]

\* trading_funcs.get_relavant_values: the dict kept as self.data, the row count
\* of the matrix, and the scaler parameters fitted on it
get_relavant_values(snap, keys, start, end) ==
    LET inc == IncludedKeys(keys)
    IN  [data   |-> DictData({"Dates"} \cup {keys[i] : i \in 1..Len(keys)}),
         rows   |-> RelevantRows(snap, start, end),
         scaler |-> [k \in {inc[i] : i \in 1..Len(inc)} |-> Fit(FitSample(snap, k, start, end))]]

\* a windower that yields no pair instead of raising on a short matrix
create_sequences_silent(rows, n) ==
    [pairs |-> Max(0, rows - n), exc |-> ""]

\* trading_funcs.create_sequences on a matrix of `rows` rows: the number of
\* (window, label) pairs, or the DataInsufficient error
create_sequences(rows, n) ==
    IF rows < n + 1 THEN [pairs |-> 0, exc |-> "ValueError"]
    ELSE [pairs |-> rows - n, exc |-> ""]

\* int(size * .8)
EightyPercent(size) == (size * 8) \div 10

\* len(data[a:]) for a matrix of `rows` rows
RowsFrom(rows, a) == Len(PySlice(DayRange(1, rows), a, rows))

-----------------------------------------------------------------------------
(* BaseModel.train, save, test, load, predict *)

\* what a call that may write files hands back
FileOutcome(s, f, exc) == [s |-> s, f |-> f, exc |-> exc]

\* the rest of train once the sequences are built
Fitted(s1, size, n, seq) ==
    IF seq.exc # "" THEN Outcome(s1, seq.exc)
    ELSE IF size < n THEN Outcome(s1, "ValueError")
    ELSE Outcome([s1 EXCEPT !.model = "Sequential"], "")

\* train, given what get_relavant_values returned
Trained(s, r, n, test) ==
    Fitted([s EXCEPT !.data = r.data, !.scaler_data = r.scaler], r.rows, n,
           create_sequences(IF test THEN EightyPercent(r.rows) ELSE r.rows, n))

\* train(test=...): the data and the scaler parameters are stored first, the
\* sequences are built, and the size check follows the building of the network
train(s, snap, keys, n, test) ==
    Trained(s, get_relavant_values(snap, keys, s.start_date, s.end_date), n, test)

\* scaler_data.update({key: value for key, value in temp.items() if key not in data})
MergeScaler(scaler, temp, d) ==
    LET taken == {k \in DOMAIN temp : k \notin d.keys}
    IN  [k \in DOMAIN scaler \cup taken |-> IF k \in taken THEN temp[k] ELSE scaler[k]]

\* the min_max_data.json half of save: merge when the file exists, then write
SaveScaler(s1, f2) ==
    IF ~f2.min_max.exists
    THEN FileOutcome(s1, [f2 EXCEPT !.min_max = JsonFile(s1.scaler_data)], "")
    ELSE IF s1.data.kind = "None" /\ DOMAIN f2.min_max.content # {}
    THEN FileOutcome(s1, f2, "TypeError")
    ELSE FileOutcome(
           [s1 EXCEPT !.scaler_data = MergeScaler(s1.scaler_data, f2.min_max.content, s1.data)],
           [f2 EXCEPT !.min_max =
                JsonFile(MergeScaler(s1.scaler_data, f2.min_max.content, s1.data))],
           "")

\* the data.json half of save, with self.data as merged
SaveData(s1, f1) == SaveScaler(s1, [f1 EXCEPT !.data_json = JsonFile(s1.data)])

\* save() once the network is written
Saved(s, f1) ==
    IF f1.data_json.exists /\ (s.data.kind = "None" \/ f1.data_json.content.kind = "None")
    THEN FileOutcome(s, f1, "AttributeError")
    ELSE SaveData([s EXCEPT !.data = IF f1.data_json.exists
                                     THEN DictData(s.data.keys \cup f1.data_json.content.keys)
                                     ELSE s.data],
                  f1)

\* save()
save(s, f) ==
    IF s.model = "None" THEN FileOutcome(s, f, "LookupError")
    ELSE Saved(s, [f EXCEPT !.model_dir = TRUE])

\* the assertion of test(), given the sequences of the test rows
Asserted(s, seq, rows) ==
    IF seq.exc # "" THEN Outcome(s, seq.exc)
    ELSE IF seq.pairs # rows THEN Outcome(s, "AssertionError")
    ELSE Outcome(s, "")

\* test() on a matrix of `rows` rows
Tested(s, rows, n) ==
    Asserted(s, create_sequences(RowsFrom(rows, EightyPercent(rows) - n - 1), n),
             RowsFrom(rows, EightyPercent(rows) - 1))

\* test(), up to its assertion len(test_predictions) == len(test_data)
test(s, snap, keys, n) ==
    IF s.model = "None" THEN Outcome(s, "LookupError")
    ELSE Tested(s, get_relavant_values(snap, keys, s.start_date, s.end_date).rows, n)

\* load() of an instance without a model, once load_model has succeeded
Loaded(s1, f) ==
    IF ~f.name_data.exists THEN [s |-> s1, exc |-> "FileNotFoundError", ret |-> ""]
    ELSE IF ~f.min_max.exists
    THEN [s |-> [s1 EXCEPT !.data = f.name_data.content],
          exc |-> "FileNotFoundError", ret |-> ""]
    ELSE [s |-> [s1 EXCEPT !.data = f.name_data.content, !.scaler_data = f.min_max.content],
          exc |-> "", ret |-> "model"]

\* load() without its first test: the files are read whatever self.model is
load_again(s, f) ==
    IF ~f.model_dir THEN [s |-> s, exc |-> "OSError", ret |-> ""]
    ELSE Loaded([s EXCEPT !.model = "Sequential"], f)

\* load(): ret is "None" when a model is already there
load(s, f) ==
    IF s.model # "None" THEN [s |-> s, exc |-> "", ret |-> "None"]
    ELSE IF ~f.model_dir THEN [s |-> s, exc |-> "OSError", ret |-> ""]
    ELSE Loaded([s EXCEPT !.model = "Sequential"], f)

\* predict once info is there
Predicted(r) ==
    IF r.exc # "" THEN r
    ELSE IF r.ret = "None" THEN [r EXCEPT !.exc = "RuntimeError", !.ret = ""]
    ELSE IF r.s.model # "None" THEN r
    ELSE [r EXCEPT !.exc = "LookupError", !.ret = ""]

\* predict(info): with info = None the window comes from get_info_today
predict(s, given, keys, scaler, n, snap, net) ==
    IF given
    THEN Predicted([s |-> s, exc |-> "", ret |-> "ok", fallback |-> FALSE, attempts |-> <<>>])
    ELSE Predicted(get_info_today(s, keys, scaler, n, snap, net))

-----------------------------------------------------------------------------
(* Configurations and inputs *)

NumDaysChoices == {2, ReshapeDays}

KeyLists == { <<"Close">>,
              <<"Close", "Change", "Momentum">>,
              <<"Close", "earnings dates", "Momentum">> }

\* min_max_data.json as loaded: the same (min, diff) for every column
ScalerChoices ==
    { [k \in AllKeys |-> p] :
        p \in { [min |-> 10, diff |-> 6], [min |-> 10, diff |-> 0] } }

\* info.json: a long snapshot and one with fewer Dates than a 60-day window
Snapshots == { <<1, MaxDay>>, <<1, ShortSnapLast>> }

\* <<num_days, start_date, end_date>> as the constructor leaves them; the dates
\* are trading days
InitCursors == { <<2, 0, 3>>, <<2, 1, 2>>, <<2, 1, 3>>, <<2, 1, 4>>,
                 <<ReshapeDays, 1, 4>>, <<ReshapeDays, 1, 88>> }

\* <<num_days, start_date, end_date>> of the models that run online: the
\* retained history holds 8, 9, 18, 19 and 33 rows
OnlineCursors == { <<2, 1, 10>>, <<2, 1, 11>>, <<2, 1, 24>>, <<2, 1, 25>>,
                   <<16, 1, 45>> }

\* information keys of an indicator model, of RSIModel without TRAMA, and of
\* EarningsModel
OnlineKeyLists == { <<"Close", "Change", "Momentum">>,
                    <<"Close", "RSI">>,
                    <<"Close", "earnings dates", "earning diffs", "Momentum">> }

\* information keys of DayTradeModel, EarningsModel, BreakoutModel and
\* SuperTrendsModel
ClassKeyLists ==
    { <<"Close">>,
      <<"Close", "earnings dates", "earning diffs", "Momentum">>,
      <<"Close", "RSI", "TRAMA", "Bollinger Middle", "Above Bollinger",
        "Bellow Bollinger", "Momentum">>,
      <<"Close", "supertrend1", "supertrend2", "supertrend3", "200-day EMA",
        "kumo_cloud">> }

\* every key of those classes
ClassKeys == UNION { {keys[i] : i \in 1..Len(keys)} : keys \in ClassKeyLists }

\* min_max_data.json with a range above zero for every key of every class
ClassScaler == [k \in ClassKeys |-> [min |-> 10, diff |-> 6]]

\* min_max_data.json with a range above zero for every column
OnlineScaler == [k \in AllKeys |-> [min |-> 10, diff |-> 6]]

\* self.data and the directory of a model that was saved and loaded before
LoadedData == DictData(SnapKeys)

LoadedFiles(scaler) ==
    Directory(TRUE, JsonFile(LoadedData), JsonFile(LoadedData), JsonFile(scaler))

\* <<num_days, start_date, end_date>> of the models that are trained: the matrix
\* has 1, 2, 3, 4 or 6 rows
LifeCursors == { <<2, 1, 1>>, <<2, 1, 2>>, <<2, 1, 3>>, <<2, 1, 4>>, <<2, 1, 8>> }

LifeKeyLists == { <<"Close">>, <<"Close", "Change", "Momentum">> }

\* min_max_data.json as another model, or an earlier run, left it
OldScaler == [k \in {"Close", "Volume"} |-> [min |-> 1, diff |-> 1]]

\* min_max_data.json as a model of another class writes it
OtherScaler == [k \in {"Close", "Volume"} |-> [min |-> 2, diff |-> 3]]

\* what the directory may hold before the first save of this run
LifeFiles ==
    { Directory(md, nd, dj, mm) :
        md \in BOOLEAN,
        nd \in {NoFile, JsonFile(DictData({"Dates", "Close"}))},
        dj \in {NoFile, JsonFile(DictData({"Dates", "Volume"}))},
        mm \in {NoFile, JsonFile(OldScaler)} }

-----------------------------------------------------------------------------
(* The state machine *)

Init ==
    /\ \E c \in InitCursors : num_days = c[1] /\ start_date = c[2] /\ end_date = c[3]
    /\ cached = None
    /\ cached_info = NoInfo
    /\ information_keys \in KeyLists
    /\ scaler_data \in ScalerChoices
    /\ model = "Sequential"
    /\ data = LoadedData
    /\ files = LoadedFiles(scaler_data)
    /\ info_json \in Snapshots
    /\ op = "init"
    /\ result = "ok"
    /\ fallback = FALSE
    /\ attempts = <<>>
    /\ loop_alive = TRUE
    /\ steps = 0
    /\ polls = 0

Config == <<num_days, information_keys, info_json>>

\* the object after a call
Assign(s) ==
    /\ cached' = s.cached
    /\ cached_info' = s.cached_info
    /\ start_date' = s.start_date
    /\ end_date' = s.end_date
    /\ scaler_data' = s.scaler_data
    /\ model' = s.model
    /\ data' = s.data

\* what an operation leaves behind: the object, the operation's name, how it
\* ended, and the acquisition attempts it made
Done(s, name, res, fb, log) ==
    /\ Assign(s)
    /\ op' = name
    /\ result' = res
    /\ fallback' = fb
    /\ attempts' = log
    /\ steps' = steps + 1
    /\ polls' = polls

\* a call that returned nothing or raised
Returned(r, name) == Done(r.s, name, IF r.exc # "" THEN r.exc ELSE "ok", FALSE, <<>>)

\* a call of get_info_today or predict
Answered(r, name) ==
    Done(r.s, name, IF r.exc # "" THEN r.exc ELSE r.ret, r.fallback, r.attempts)

\* a call of load
LoadReturned(r, name) ==
    Done(r.s, name,
         IF r.exc # "" THEN r.exc ELSE IF r.ret = "None" THEN "None" ELSE "ok",
         FALSE, <<>>)

\* model.get_info_today()
GetInfoToday ==
    \E net \in BOOLEAN :
        /\ steps < MaxSteps
        /\ Answered(get_info_today(Self, information_keys, scaler_data, num_days,
                                   info_json, net),
                    "get_info_today")
        /\ UNCHANGED <<Config, files, loop_alive>>

\* model.update_cached_offline() called by the driver itself
UpdateCachedOffline ==
    /\ steps < MaxSteps
    /\ Returned(update_cached_offline(Self, info_json, information_keys, num_days),
                "update_cached_offline")
    /\ UNCHANGED <<Config, files, loop_alive>>

\* model.cached_info = model.update_cached_info_online(); model.update_cached_online()
UpdateOnline ==
    \E net \in BOOLEAN :
        /\ steps < MaxSteps
        /\ Returned(StoreInfo(Self, update_cached_info_online(Self, net),
                              information_keys, scaler_data, num_days),
                    "update_online")
        /\ UNCHANGED <<Config, files, loop_alive>>

\* the end of an iteration: the cursor steps on, or the thread dies of err
LoopEnded(r, err) ==
    /\ Done(IF err = "" THEN NextCalendarDay(r.s) ELSE r.s, "run_loop",
            IF err = "" THEN "ok" ELSE err, FALSE, <<>>)
    /\ loop_alive' = (err = "")

\* the iteration after update_cached_offline: reshape, predict, step the dates
LoopStep(r) == LoopEnded(r, IF r.exc # "" THEN r.exc ELSE ReshapeError(r.s.cached))

\* one iteration of run_loop's while loop
RunLoop ==
    /\ loop_alive
    /\ steps < MaxSteps
    /\ LoopStep(update_cached_offline(Self, info_json, information_keys, num_days))
    /\ UNCHANGED <<Config, files>>

\* a driver that calls the update methods itself steps the cursor as run_loop does
NextDay ==
    /\ op \in {"update_cached_offline", "update_online"}
    /\ result = "ok"
    /\ steps < MaxSteps
    /\ Done(NextCalendarDay(Self), "next_day", "ok", FALSE, <<>>)
    /\ UNCHANGED <<Config, files, loop_alive>>

\* model.train(test=...)
Train ==
    \E t \in BOOLEAN :
        /\ steps < MaxSteps
        /\ Returned(train(Self, info_json, information_keys, num_days, t),
                    IF t THEN "train_test" ELSE "train")
        /\ UNCHANGED <<Config, files, loop_alive>>

\* a call of save: the object and the directory afterwards
SaveReturned(r) == Returned(r, "save") /\ files' = r.f

\* model.save()
Save ==
    /\ steps < MaxSteps
    /\ SaveReturned(save(Self, files))
    /\ UNCHANGED <<Config, loop_alive>>

\* model.test()
Test ==
    /\ steps < MaxSteps
    /\ Returned(test(Self, info_json, information_keys, num_days), "test")
    /\ UNCHANGED <<Config, files, loop_alive>>

\* model.load()
Load ==
    /\ steps < MaxSteps
    /\ LoadReturned(load(Self, files), "load")
    /\ UNCHANGED <<Config, files, loop_alive>>

\* the object the constructor leaves, for the same class, symbol and dates
Fresh == [Self EXCEPT !.cached = None, !.cached_info = NoInfo, !.scaler_data = <<>>,
                      !.model = "None", !.data = NoData]

\* a new instance of the same model class and symbol is built, and load() called
LoadFresh ==
    /\ steps < MaxSteps
    /\ LoadReturned(load(Fresh, files), "load_fresh")
    /\ UNCHANGED <<Config, files, loop_alive>>

\* model.predict(info): info is a window the caller built, or None
Predict ==
    \E net \in BOOLEAN, given \in BOOLEAN :
        /\ steps < MaxSteps
        /\ Answered(predict(Self, given, information_keys, scaler_data, num_days,
                            info_json, net),
                    IF given THEN "predict_info" ELSE "predict")
        /\ UNCHANGED <<Config, files, loop_alive>>

\* a model of another class saves for the same symbol: min_max_data.json is
\* rewritten
OtherModelSaves ==
    /\ steps < MaxSteps
    /\ files.min_max # JsonFile(OtherScaler)
    /\ files' = [files EXCEPT !.min_max = JsonFile(OtherScaler)]
    /\ Done(Self, "other_save", "ok", FALSE, <<>>)
    /\ UNCHANGED <<Config, loop_alive>>

\* what one call of the polling driver leaves behind
Polled(r) ==
    /\ Assign(r.s)
    /\ op' = "get_info_today"
    /\ result' = (IF r.exc # "" THEN r.exc ELSE r.ret)
    /\ fallback' = r.fallback
    /\ attempts' = r.attempts
    /\ polls' = 1 - polls

\* a driver that calls get_info_today again and again, the data source in reach
Poll ==
    /\ Polled(get_info_today(Self, information_keys, scaler_data, num_days,
                              info_json, TRUE))
    /\ UNCHANGED <<Config, files, loop_alive, steps>>

Next ==
    \/ GetInfoToday
    \/ UpdateCachedOffline
    \/ UpdateOnline
    \/ RunLoop
    \/ NextDay

Spec == Init /\ [][Next]_vars

\* the life cycle of a model: from construction through train, save and load to
\* inference
InitLife ==
    /\ \E c \in LifeCursors : num_days = c[1] /\ start_date = c[2] /\ end_date = c[3]
    /\ cached = None
    /\ cached_info = NoInfo
    /\ information_keys \in LifeKeyLists
    /\ scaler_data = <<>>
    /\ model = "None"
    /\ data = NoData
    /\ files \in LifeFiles
    /\ info_json = <<1, ShortSnapLast>>
    /\ op = "init"
    /\ result = "ok"
    /\ fallback = FALSE
    /\ attempts = <<>>
    /\ loop_alive = TRUE
    /\ steps = 0
    /\ polls = 0

NextLife ==
    \/ Train
    \/ Save
    \/ Test
    \/ Load
    \/ LoadFresh
    \/ Predict
    \/ OtherModelSaves
    \/ GetInfoToday
    \/ UpdateCachedOffline
    \/ UpdateOnline

SpecLife == InitLife /\ [][NextLife]_vars

\* a loaded model whose driver keeps the window current online, day after day
InitOnline ==
    /\ \E c \in OnlineCursors : num_days = c[1] /\ start_date = c[2] /\ end_date = c[3]
    /\ cached = None
    /\ cached_info = NoInfo
    /\ information_keys \in OnlineKeyLists
    /\ scaler_data = OnlineScaler
    /\ model = "Sequential"
    /\ data = LoadedData
    /\ files = LoadedFiles(scaler_data)
    /\ info_json = <<1, MaxDay>>
    /\ op = "init"
    /\ result = "ok"
    /\ fallback = FALSE
    /\ attempts = <<>>
    /\ loop_alive = TRUE
    /\ steps = 0
    /\ polls = 0

NextOnline ==
    \/ UpdateOnline
    \/ NextDay

SpecOnline == InitOnline /\ [][NextOnline]_vars

\* a loaded model of each class, kept current online
InitClasses ==
    /\ \E c \in OnlineCursors : num_days = c[1] /\ start_date = c[2] /\ end_date = c[3]
    /\ cached = None
    /\ cached_info = NoInfo
    /\ information_keys \in ClassKeyLists
    /\ scaler_data = ClassScaler
    /\ model = "Sequential"
    /\ data = DictData({"Dates"} \cup ClassKeys)
    /\ files = LoadedFiles(scaler_data)
    /\ info_json = <<1, MaxDay>>
    /\ op = "init"
    /\ result = "ok"
    /\ fallback = FALSE
    /\ attempts = <<>>
    /\ loop_alive = TRUE
    /\ steps = 0
    /\ polls = 0

SpecClasses == InitClasses /\ [][NextOnline]_vars

\* run_loop has stepped the cursor, and a driver polls get_info_today for ever:
\* every call it can make is made
NextPolling ==
    \/ RunLoop
    \/ Poll

SpecPolling == Init /\ [][NextPolling]_vars /\ WF_vars(Poll)

TypeOK ==
    /\ cached.nd \in 0..3
    /\ cached_info.kind \in {"None", "Dict", "DataFrame"}
    /\ model \in {"None", "Sequential"}
    /\ data.kind \in {"None", "dict"}
    /\ files.model_dir \in BOOLEAN
    /\ num_days \in NumDaysChoices \cup {c[1] : c \in OnlineCursors}
    /\ steps \in 0..MaxSteps
    /\ polls \in {0, 1}

-----------------------------------------------------------------------------
(* Vocabulary of the properties *)

\* the last call ended by raising
Raised(r) == r \notin {"ok", "None"}

\* a feature window exists
WindowExists == cached # None

\* info.json["Dates"] holds the day
InSnapshot(d) == Contains(SnapDates(info_json), d)

\* the data source has a row for the day
InSource(d) == IsTradingDay(d) /\ d \in 0..MaxDay

\* columns the scaling loop of indicators_past_num_days divides
ScaledKeys == {k \in AllKeys : Contains(IncludedKeys(information_keys), k)}

\* the window update_cached_offline builds from an empty cache at end date d
FreshOffline(d) ==
    update_cached_offline([cached |-> None, cached_info |-> NoInfo,
                           start_date |-> start_date, end_date |-> d],
                          info_json, information_keys, num_days)

\* the window the online path builds from an empty cache at end date d
FreshOnline(d) ==
    LET s0   == [cached |-> None, cached_info |-> NoInfo,
                 start_date |-> start_date, end_date |-> d]
        info == update_cached_info_online(s0, TRUE)
    IN  IF info.exc # "" THEN Outcome(s0, info.exc)
        ELSE update_cached_online([s0 EXCEPT !.cached_info = info.val],
                                  information_keys, scaler_data, num_days)

\* s without its last element
Front(s) == SubSeq(s, 1, Len(s) - 1)

-----------------------------------------------------------------------------
(* Properties *)

\* C1: whenever get_info_today or update_cached_offline ends by raising, the
\* window self.cached and the cursor dates are what they were before the call.
C1_FailedAdvanceLeavesWindow ==
    [][ (op' \in {"get_info_today", "update_cached_offline"} /\ Raised(result'))
        => (cached' = cached /\ start_date' = start_date /\ end_date' = end_date) ]_vars

\* C2: a get_info_today call on a trading day that propagates a failure has
\* attempted update_cached_offline in that same call.
C2_OfflineTriedBeforeFailure ==
    (op = "get_info_today" /\ Raised(result)) => fallback

\* C3: whenever a feature window exists it holds exactly num_days rows.
C3_WindowHasNumDaysRows ==
    WindowExists => (cached.nd = 2 /\ Len(cached.rows) = num_days)

\* C4: update_cached_offline for an end_date missing from the snapshot's Dates
\* (or, on first population, a missing start_date) raises ValueError and leaves
\* the window unchanged.
C4_MissingDateIsOutOfRange ==
    [][ ( /\ op' = "update_cached_offline"
          /\ \/ ~InSnapshot(end_date)
             \/ (cached_info.kind = "None" /\ ~InSnapshot(start_date)) )
        => (result' = "ValueError" /\ cached' = cached) ]_vars

\* C5: after a successful advance that left a populated window, a further
\* get_info_today or update_cached_offline for a date the data source and the
\* snapshot contain succeeds as well.
C5_NextAdvanceSucceeds ==
    [][ ( /\ op \in {"update_cached_offline", "run_loop", "get_info_today"}
          /\ result = "ok"
          /\ WindowExists /\ PyLen(cached) = num_days
          /\ InSource(end_date) /\ InSnapshot(end_date)
          /\ op' \in {"get_info_today", "update_cached_offline"} )
        => result' = "ok" ]_vars

\* C6: each successful advance that moves the cursor moves end_date to the next
\* trading day, never to a non-trading date.
C6_CursorMovesToNextTradingDay ==
    [][ (op' \in {"get_info_today", "run_loop"} /\ result' = "ok")
        => ( /\ end_date' > end_date
             /\ IsTradingDay(end_date')
             /\ \A d \in (end_date + 1)..(end_date' - 1) : ~IsTradingDay(d) ) ]_vars

\* C7: for the same configuration and end_date, the window the online path
\* builds from an empty cache equals the window the offline path builds.
C7_OnlineEqualsOffline ==
    (steps = 1 /\ op = "update_online" /\ result = "ok" /\ FreshOffline(end_date).exc = "")
        => cached = FreshOffline(end_date).s.cached

\* C8: advancing a populated window by one day to end date d yields the window
\* that populating an empty cache at d yields, in each acquisition mode.
C8_AdvanceEqualsRepopulation ==
    [][ (op = "next_day" /\ result' = "ok")
        => ( /\ (op' = "update_cached_offline" /\ cached_info.kind = "Dict")
                   => cached' = FreshOffline(end_date).s.cached
             /\ (op' = "update_online" /\ cached_info.kind = "DataFrame")
                   => cached' = FreshOnline(end_date).s.cached ) ]_vars

\* C9: an advance to the next day, online or offline, only drops the oldest row
\* and appends one row: rows 1..n-1 before it are rows 0..n-2 after it.
C9_AdvanceShiftsRows ==
    [][ ( /\ op = "next_day" /\ result' = "ok"
          /\ cached.nd = 2 /\ Len(cached.rows) > 0
          /\ \/ (op' = "update_cached_offline" /\ cached_info.kind = "Dict")
             \/ (op' = "update_online" /\ cached_info.kind = "DataFrame") )
        => ( /\ Len(cached'.rows) = Len(cached.rows)
             /\ Tail(cached.rows) = Front(cached'.rows) ) ]_vars

\* C10: scaling a column whose persisted range diff is 0 ends in an error; no
\* update ever completes after dividing (value - min) by a zero range.
C10_ZeroRangeIsAnError ==
    (op = "update_online" /\ \E k \in ScaledKeys : scaler_data[k].diff = 0)
        => Raised(result)

\* the scaler parameters train() computes for this configuration
TrainedScaler ==
    get_relavant_values(info_json, information_keys, start_date, end_date).scaler

\* the mapping holds train()'s (min, diff) entry for every scaled column
HoldsTrained(sc) ==
    \A k \in DOMAIN TrainedScaler : k \in DOMAIN sc /\ sc[k] = TrainedScaler[k]

\* C11: after train() and then save(), load() on a fresh instance of the same
\* class and symbol completes, and its scaler_data holds the (min, diff) entry
\* train() computed for every column of information_keys, whatever the directory
\* held before the save.
C11_SaveThenLoadRestoresScaler ==
    [][ ( /\ op = "save" /\ result = "ok"
          /\ HoldsTrained(scaler_data)
          /\ op' = "load_fresh" )
        => (result' = "ok" /\ HoldsTrained(scaler_data')) ]_vars

\* the operations of inference
InferenceOps ==
    {"get_info_today", "update_cached_offline", "update_online", "predict", "predict_info"}

\* C12: no inference operation changes scaler_data, and load() on an instance
\* that already has a model changes nothing and returns None.
C12_ScalerFixedAtInference ==
    [][ /\ (op' \in InferenceOps) => (scaler_data' = scaler_data)
        /\ (op' = "load" /\ model # "None")
              => ( /\ scaler_data' = scaler_data /\ data' = data /\ model' = model
                   /\ files' = files /\ result' = "None" ) ]_vars

\* a model that load() filled (its data is the content of <name>_data.json, not
\* what train() stores) has built a window, min_max_data.json has been rewritten
\* since, and load() was called again
C12_Witness ==
    /\ op = "load" /\ result = "None"
    /\ Len(information_keys) > 1
    /\ files.name_data.exists /\ data = files.name_data.content
    /\ cached # None
    /\ files.min_max.exists /\ files.min_max.content # scaler_data

\* update_cached_online has just built the window from a fetched history
OnlineWindow == op = "update_online" /\ result = "ok" /\ cached.nd = 2

\* the dates of the rows of the online window
WindowDates == LastN(cached_info.index, num_days)

\* position of a column in the rows of the online window, 0 when it has none
ColumnOf(key) ==
    IndexOf(SelectSeq(information_keys, LAMBDA k : k # "earnings dates"), key) + 1

\* C13: every cell of a window built online is a defined number, for every row
\* and column, whenever the retained history holds at least num_days + 14 rows.
C13_OnlineCellsDefined ==
    (OnlineWindow /\ Len(cached_info.index) >= num_days + RSIWindow)
        => \A r \in 1..Len(cached.rows) : \A c \in 1..Len(cached.rows[r]) :
               IsFinite(cached.rows[r][c])

\* the surprise of an announcement date, as published and as scaled
Surprise(d) ==
    get_earnings_history.diffs[IndexOf(get_earnings_history.dates, d) + 1]

\* C14: the earnings-diff column has one entry per date of the trailing num_days
\* window; the entry of an announcement date is its surprise magnitude (scaled
\* or not), and the entry of any other date is 0.
C14_EarningsDiffPerDate ==
    (OnlineWindow /\ Contains(information_keys, "earning diffs"))
        => /\ Len(cached.rows) = Len(WindowDates)
           /\ \A r \in 1..Len(cached.rows) :
                 LET d    == WindowDates[r]
                     cell == cached.rows[r][ColumnOf("earning diffs")]
                 IN  IF Contains(get_earnings_history.dates, d)
                     THEN cell \in {Surprise(d),
                                    Scale(Surprise(d), scaler_data["earning diffs"])}
                     ELSE cell = Num(0)

\* the sum of Change over the 10 most recent rows of the history ending at row j
MomentumOver(index, j) ==
    SumCells(ChangeColumn(index), Max(1, j - MomentumWindow + 1), j)

\* C15: each row of the online window carries, as Momentum, the sum of Change
\* over the 10 most recent days of the retained history ending at that row.
C15_MomentumOverHistory ==
    (OnlineWindow /\ Contains(information_keys, "Momentum"))
        => \A r \in 1..Len(cached.rows) :
               cached.rows[r][ColumnOf("Momentum")]
                 = Scale(MomentumOver(cached_info.index,
                                      Len(cached_info.index) - Len(cached.rows) + r),
                         scaler_data["Momentum"])

\* the first population of update_cached_offline would slice no row at all
EmptyPopulationAhead ==
    /\ cached_info.kind = "None"
    /\ InSnapshot(start_date) /\ InSnapshot(end_date)
    /\ FirstKey(IncludedKeys(information_keys), LAMBDA k : k \notin SnapKeys) = ""
    /\ PyLen(OfflinePopulation(info_json, information_keys, num_days, end_date)) = 0

\* a trading day info.json["Dates"] does not hold
MissingDay == CHOOSE d \in 0..MaxDay : IsTradingDay(d) /\ ~InSnapshot(d)

\* the object as it is, with nothing cached, at a date missing from the snapshot
AtMissingDay == [Self EXCEPT !.end_date = MissingDay, !.cached_info = NoInfo]

\* what the caller of the operation receives for a date missing from the
\* snapshot, the data source being out of reach
OutOfRangeError(name) ==
    IF name = "update_cached_offline"
    THEN update_cached_offline(AtMissingDay, info_json, information_keys, num_days).exc
    ELSE get_info_today(AtMissingDay, information_keys, scaler_data, num_days,
                        info_json, FALSE).exc

\* C16: when the offline population yields an empty window, the caller of
\* update_cached_offline and the caller of get_info_today receive an error that
\* differs from the one they receive for a date missing from the snapshot.
C16_EmptyWindowErrorIsDistinct ==
    [][ ( /\ EmptyPopulationAhead
          /\ op' \in {"update_cached_offline", "get_info_today"}
          /\ op' = "get_info_today" => IsTradingDay(end_date) )
        => (Raised(result') /\ result' # OutOfRangeError(op')) ]_vars

\* update_cached_offline alone keeps the two errors apart
C16_DirectCallIsDistinct ==
    [][ (EmptyPopulationAhead /\ op' = "update_cached_offline")
        => (result' = "RuntimeError" /\ OutOfRangeError(op') = "ValueError") ]_vars

\* the operations that run get_info_today
AcquiringOps == {"get_info_today", "predict"}

MatrixRows == RelevantRows(info_json, start_date, end_date)

\* number of rows of the matrix train hands to create_sequences
HandedRows(name) ==
    IF name = "train_test" THEN EightyPercent(MatrixRows) ELSE MatrixRows

C19_TestAssertionHolds ==
    [][ (op' = "test" /\ model # "None" /\ MatrixRows >= num_days)
        => result' = "ok" ]_vars

\* the snapshot holds a trading day after the cursor
LaterDayKnown ==
    \E d \in (end_date + 1)..MaxDay : IsTradingDay(d) /\ InSnapshot(d)

\* C20: with a data source that never fails and later trading days in the
\* snapshot, a get_info_today call that returned None without moving the cursor
\* is followed, as the calls are repeated, by a call that advances.
C20_PollingEventuallyAdvances ==
    (op = "get_info_today" /\ result = "None" /\ LaterDayKnown)
        ~> (op = "get_info_today" /\ result = "ok")

\* the modes of the acquisition attempts of the call that has just ended
AttemptedModes == {attempts[i].mode : i \in 1..Len(attempts)}

\* C21: once cached_info holds the snapshot dict, a get_info_today call on a
\* trading day skips the online path and goes straight to
\* update_cached_offline.
C21_OfflineModeSkipsOnline ==
    [][ (cached_info.kind = "Dict" /\ op' \in AcquiringOps /\ IsTradingDay(end_date))
        => AttemptedModes' = {"offline"} ]_vars

\* C22: predict() with info = None on an instance without a model raises
\* LookupError and leaves self.cached, self.cached_info and the cursor dates as
\* they were.
C22_PredictWithoutModel ==
    [][ (op' = "predict" /\ model = "None")
        => ( /\ result' = "LookupError"
             /\ cached' = cached /\ cached_info' = cached_info
             /\ start_date' = start_date /\ end_date' = end_date ) ]_vars

\* the next update_cached_offline call gets to its advance: it holds, or will
\* populate, a window with rows, and end_date is in the snapshot
AdvanceAhead ==
    /\ InSnapshot(end_date)
    /\ \/ /\ cached_info.kind = "None"
          /\ InSnapshot(start_date)
          /\ FirstKey(IncludedKeys(information_keys), LAMBDA k : k \notin SnapKeys) = ""
          /\ PyLen(OfflinePopulation(info_json, information_keys, num_days, end_date)) > 0
       \/ /\ cached_info.kind = "Dict"
          /\ cached.nd = 2 /\ Len(cached.rows) > 0
          /\ Len(cached.rows[1]) = Len(IncludedKeys(information_keys))

\* C23: the row an advance of update_cached_offline appends has the columns of
\* the window the first population built, one per key that is not excluded, for
\* every information_keys list: the advance succeeds and every row of the
\* window has that many columns.
C23_AdvanceRowMatchesPopulation ==
    [][ (op' = "update_cached_offline" /\ AdvanceAhead)
        => ( /\ result' = "ok"
             /\ \A r \in 1..Len(cached'.rows) :
                   Len(cached'.rows[r]) = Len(IncludedKeys(information_keys)) ) ]_vars

\* without a key of excluded_values in information_keys the advance fits
C23_FitsWithoutExcludedKeys ==
    [][ ( /\ op' = "update_cached_offline" /\ AdvanceAhead
          /\ IncludedKeys(information_keys) = information_keys )
        => ( /\ result' = "ok"
             /\ \A r \in 1..Len(cached'.rows) :
                   Len(cached'.rows[r]) = Len(information_keys) ) ]_vars

\* a load() that raised part-way has left a model without its data or scaler
PartWayLoaded == model # "None" /\ (data = NoData \/ scaler_data = <<>>)

\* every file load() reads is there
AllPersisted == files.model_dir /\ files.name_data.exists /\ files.min_max.exists

\* C24: a load() that failed part-way is completed by a later load(): once the
\* persisted files are all there, load() on an instance that has a model but
\* not its data or its scaler leaves self.data and self.scaler_data holding the
\* persisted contents.
C24_LaterLoadCompletes ==
    [][ (PartWayLoaded /\ AllPersisted /\ op' = "load")
        => ( /\ data' = files.name_data.content
             /\ scaler_data' = files.min_max.content ) ]_vars

\* the persisted scaler has an entry for every key the scaling loop divides
ScalerCoversKeys ==
    \A i \in 1..Len(information_keys) :
        information_keys[i] \notin excluded_values
            => information_keys[i] \in DOMAIN scaler_data

\* C25: for every model class, every information key that is not excluded is
\* computed by indicators_past_num_days: with a scaler that covers the keys,
\* neither the scaling loop nor update_cached_online ends in KeyError on a
\* column that was not produced.
C25_EveryKeyIsComputed ==
    (op = "update_online" /\ ScalerCoversKeys) => result # "KeyError"

====
